---------------------------- MODULE Spec2Model ----------------------------
(***************************************************************************)
(* RESTAnovaController (examples/rest/rest.py): the guardian of the one    *)
(* Bluetooth connection to the Anova.  It opens the connection on demand,  *)
(* stamps every command, and polls with threading.Timer every              *)
(* TIMEOUT_HEARTBEAT seconds to close a connection that has been idle for  *)
(* more than TIMEOUT seconds.                                              *)
(*                                                                         *)
(* Time is in whole seconds.  A Timer fires exactly when it is due: time   *)
(* does not pass a live timer's due time.  Under Spec every operation      *)
(* (send, connect, close, an idle-check) runs alone and takes no time.     *)
(* SpecCall adds callers of timeout(seconds), SpecFault a transport whose  *)
(* close can fail, and SpecConc runs a caller's thread and a Timer's       *)
(* thread line by line, interleaved, as the code (which takes no lock)     *)
(* lets them.                                                              *)
(***************************************************************************)
EXTENDS Integers, Sequences, FiniteSets, TLC

VARIABLES
    is_connected,     \* AnovaController.is_connected: the transport is OPEN
    last_command_at,  \* self.last_command_at, in seconds
    _timeout_timer,   \* self._timeout_timer: [st, due], st "unset" (no such
                      \* attribute), "live" (started, waiting) or "dead"
    timers,           \* the due times of the live Timers that self._timeout_timer
                      \* no longer refers to, in ascending order
    now,              \* datetime.datetime.now(), in seconds
    alive,            \* the constructor returned the object
    op,               \* what ran last at this instant: [name, again]
    pre,              \* the guardian as it was when that began
    log,              \* what it did, in order
    exc,              \* the exception it raised, or "none"
    lastActivity,     \* when the latest send or connect that got its connection ran
    closedBy,         \* what closed the transport last: "never", "close", "timeout"
    burst,            \* sends since creation with nothing else in between, or Broken
    arg,              \* the seconds argument of the timeout() call that ran last,
                      \* 0 for none
    threads           \* under SpecConc: where the caller's thread ("fg") and
                      \* the Timer's thread ("bg") are in the code

vars == <<is_connected, last_command_at, _timeout_timer, timers, now, alive,
          op, pre, log, exc, lastActivity, closedBy, burst, arg, threads>>

---------------------------------------------------------------------------
(* Program constants *)

TIMEOUT == 60
TIMEOUT_HEARTBEAT == 20

(* Bounds of the model *)

MaxTime == 110      \* the clock stops here
Grain == 5          \* the clock advances by at most this much at a time
MaxTimers == 2      \* Timer objects that can be live at once
MaxBurst == 3       \* the burst counter saturates here

Broken == 0 - 1

Min(S) == CHOOSE x \in S : \A y \in S : x <= y

---------------------------------------------------------------------------
(* The guardian as a value: the fields, the Timer objects, and the record  *)
(* of what the running operation did.                                      *)

World ==
    [ is_connected    |-> is_connected,
      last_command_at |-> last_command_at,
      _timeout_timer  |-> _timeout_timer,
      timers          |-> timers,
      log             |-> <<>>,
      exc             |-> "none" ]

(* What is kept of the guardian as it was when an operation began: the     *)
(* transport, the timers, and whether last_command_at was the time t of    *)
(* the operation already.                                                  *)
Fields(w, t) ==
    [ is_connected    |-> w.is_connected,
      fresh           |-> (w.last_command_at = t),
      _timeout_timer  |-> w._timeout_timer,
      timers          |-> w.timers ]

Unset == [st |-> "unset", due |-> 0]
Dead == [st |-> "dead", due |-> 0]
Started(due) == [st |-> "live", due |-> due]

Insert(seq, x) ==
    LET k == Cardinality({i \in DOMAIN seq : seq[i] <= x})
    IN  SubSeq(seq, 1, k) \o <<x>> \o SubSeq(seq, k + 1, Len(seq))

Remove(seq, i) == SubSeq(seq, 1, i - 1) \o SubSeq(seq, i + 1, Len(seq))

(* The due times of all live Timers, in ascending order. *)
Scheduled(w) ==
    IF w._timeout_timer.st = "live"
    THEN Insert(w.timers, w._timeout_timer.due)
    ELSE w.timers

Live(w) == Len(Scheduled(w))

Did(w, what) == [w EXCEPT !.log = Append(@, what)]

Raise(w, e) == [w EXCEPT !.exc = e, !.log = Append(@, e)]

Count(seq, what) == Cardinality({i \in DOMAIN seq : seq[i] = what})

---------------------------------------------------------------------------
(* The transport: AnovaController, the base class (pycirculate.anova)      *)

super_connect(w, openOk) ==
    IF openOk
    THEN [Did(w, "open") EXCEPT !.is_connected = TRUE]
    ELSE Raise(Did(w, "open"), "ConnectionFailed")

super_close(w, closeOk) ==
    IF closeOk
    THEN [Did(w, "close") EXCEPT !.is_connected = FALSE]
    ELSE Raise(Did(w, "close"), "CloseFailed")

super_send_command(w, sendOk) ==
    IF sendOk
    THEN Did(w, "send")
    ELSE Raise(Did(w, "send"), "CommandFailed")

---------------------------------------------------------------------------
(* threading.Timer *)

(* Mutant: the next check is set TIMEOUT ahead, not TIMEOUT_HEARTBEAT. *)
Timer_start_slow(w, t) ==
    [Did(w, "arm") EXCEPT
        !.timers = IF w._timeout_timer.st = "live"
                   THEN Insert(@, w._timeout_timer.due) ELSE @,
        !._timeout_timer = Started(t + TIMEOUT)]

(* self._timeout_timer = Timer(TIMEOUT_HEARTBEAT, ...); setDaemon; start() *)
(* The Timer the attribute referred to, if live, stays live.               *)
Timer_start(w, t) ==
    [Did(w, "arm") EXCEPT
        !.timers = IF w._timeout_timer.st = "live"
                   THEN Insert(@, w._timeout_timer.due) ELSE @,
        !._timeout_timer = Started(t + TIMEOUT_HEARTBEAT)]

(* Mutant: cancelling with no _timeout_timer attribute is an error. *)
Timer_cancel_strict(w) ==
    IF w._timeout_timer.st = "unset"
    THEN Raise(w, "AttributeError")
    ELSE [w EXCEPT !._timeout_timer = Dead]

(* self._timeout_timer.cancel(), AttributeError passed over *)
Timer_cancel(w) ==
    IF w._timeout_timer.st = "unset"
    THEN w
    ELSE [w EXCEPT !._timeout_timer = Dead]

---------------------------------------------------------------------------
(* RESTAnovaController *)

(* Mutant: the AttributeError of a missing _timeout_timer is not caught. *)
close_nocatch(w, closeOk) ==
    LET w1 == super_close(w, closeOk)
    IN  IF w1.exc # "none" THEN w1
        ELSE IF w1._timeout_timer.st = "unset" THEN Raise(w1, "AttributeError")
        ELSE Timer_cancel(w1)

close(w, closeOk) ==
    LET w1 == super_close(w, closeOk)
    IN  IF w1.exc # "none" THEN w1 ELSE Timer_cancel(w1)

(* Mutant: >= for >. *)
Expired_ge(w, t, seconds) ==
    LET secs == IF seconds = 0 THEN TIMEOUT ELSE seconds
        timeout_at == w.last_command_at + secs
    IN  t >= timeout_at

Expired(w, t, seconds) ==
    LET secs == IF seconds = 0 THEN TIMEOUT ELSE seconds
        timeout_at == w.last_command_at + secs
    IN  t > timeout_at

(* Mutant: the next check is set for when the idle time runs out. *)
timeout_remaining(w, t, seconds, closeOk) ==
    LET secs == IF seconds = 0 THEN TIMEOUT ELSE seconds
        timeout_at == w.last_command_at + secs
    IN  IF Expired(w, t, seconds)
        THEN close(w, closeOk)
        ELSE [Timer_start(w, t) EXCEPT !._timeout_timer = Started(timeout_at)]

timeout(w, t, seconds, closeOk) ==
    IF Expired(w, t, seconds)
    THEN close(w, closeOk)
    ELSE Timer_start(w, t)

(* Mutant: a failed open is tried once more. *)
connect_retry(w, t, openOk, closeOk) ==
    LET w0 == super_connect(w, openOk)
        w1 == IF w0.exc # "none" THEN super_connect(w0, openOk) ELSE w0
        w2 == [Did(w1, "stamp") EXCEPT !.last_command_at = t]
    IN  IF w1.exc # "none" THEN w1 ELSE timeout(w2, t, 0, closeOk)

(* Mutant: the idle-check is started before last_command_at is set. *)
connect_stamp_late(w, t, openOk, closeOk) ==
    LET w1 == super_connect(w, openOk)
        w2 == timeout(w1, t, 0, closeOk)
    IN  IF w1.exc # "none" THEN w1
        ELSE [Did(w2, "stamp") EXCEPT !.last_command_at = t]

connect(w, t, openOk, closeOk) ==
    LET w1 == super_connect(w, openOk)
        w2 == [Did(w1, "stamp") EXCEPT !.last_command_at = t]
    IN  IF w1.exc # "none" THEN w1 ELSE timeout(w2, t, 0, closeOk)

(* Mutant: the command is forwarded without looking at is_connected. *)
_send_command_noconnect(w, t, openOk, sendOk, closeOk) ==
    LET w2 == [Did(w, "stamp") EXCEPT !.last_command_at = t]
    IN  super_send_command(w2, sendOk)

(* Mutant: connect() is called whether or not the transport is open. *)
_send_command_reconnect(w, t, openOk, sendOk, closeOk) ==
    LET w1 == connect(w, t, openOk, closeOk)
        w2 == [Did(w1, "stamp") EXCEPT !.last_command_at = t]
    IN  IF w1.exc # "none" THEN w1 ELSE super_send_command(w2, sendOk)

(* Mutant: last_command_at is not set by a send. *)
_send_command_nostamp(w, t, openOk, sendOk, closeOk) ==
    LET w1 == IF ~w.is_connected THEN connect(w, t, openOk, closeOk) ELSE w
    IN  IF w1.exc # "none" THEN w1 ELSE super_send_command(w1, sendOk)

(* Mutant: every send starts the idle-check again. *)
_send_command_rearm(w, t, openOk, sendOk, closeOk) ==
    LET w1 == IF ~w.is_connected THEN connect(w, t, openOk, closeOk) ELSE w
        w2 == [Did(w1, "stamp") EXCEPT !.last_command_at = t]
    IN  IF w1.exc # "none" THEN w1
        ELSE super_send_command(timeout(w2, t, 0, closeOk), sendOk)

(* Mutant: last_command_at is set after the command went through. *)
_send_command_stamp_after(w, t, openOk, sendOk, closeOk) ==
    LET w1 == IF ~w.is_connected THEN connect(w, t, openOk, closeOk) ELSE w
        w2 == super_send_command(w1, sendOk)
    IN  IF w1.exc # "none" THEN w1
        ELSE IF w2.exc # "none" THEN w2
        ELSE [Did(w2, "stamp") EXCEPT !.last_command_at = t]

(* Mutant: a send on an open transport cancels the idle-check and starts   *)
(* it again from the time of the send.                                     *)
_send_command_restart(w, t, openOk, sendOk, closeOk) ==
    LET w1 == IF ~w.is_connected THEN connect(w, t, openOk, closeOk)
              ELSE Timer_start(Timer_cancel(w), t)
        w2 == [Did(w1, "stamp") EXCEPT !.last_command_at = t]
    IN  IF w1.exc # "none" THEN w1 ELSE super_send_command(w2, sendOk)

_send_command(w, t, openOk, sendOk, closeOk) ==
    LET w1 == IF ~w.is_connected THEN connect(w, t, openOk, closeOk) ELSE w
        w2 == [Did(w1, "stamp") EXCEPT !.last_command_at = t]
    IN  IF w1.exc # "none" THEN w1 ELSE super_send_command(w2, sendOk)

(* __init__(mac_address, connect) *)
init(t, doConnect, openOk, closeOk) ==
    LET w0 == [ is_connected    |-> FALSE,
                last_command_at |-> t,
                _timeout_timer  |-> Unset,
                timers          |-> <<>>,
                log             |-> <<>>,
                exc             |-> "none" ]
    IN  IF doConnect THEN connect(w0, t, openOk, closeOk) ELSE w0

(* The Timer's thread: the wait is over, the Timer is finished, and        *)
(* lambda: self.timeout() runs.  i = 0 is the Timer self._timeout_timer    *)
(* refers to, i > 0 the i-th of the others.                                *)
Due(w, i) == IF i = 0 THEN w._timeout_timer.due ELSE w.timers[i]

Waiting(w) ==
    (IF w._timeout_timer.st = "live" THEN {0} ELSE {}) \cup DOMAIN w.timers

Timer_run(w, i, t, closeOk) ==
    timeout(IF i = 0 THEN [w EXCEPT !._timeout_timer = Dead]
            ELSE [w EXCEPT !.timers = Remove(@, i)],
            t, 0, closeOk)

---------------------------------------------------------------------------
(* The threads that run the code: the caller's and the Timer's.  A thread  *)
(* is at a line of rest.py (pc) inside an operation (op); held is what its *)
(* evaluation of self._timeout_timer at line 66 gave.                      *)

Threads == {"fg", "bg"}

Idle == [pc |-> "idle", op |-> "none", held |-> "none", due |-> 0]

---------------------------------------------------------------------------
(* The state machine *)

Set(w) ==
    /\ is_connected' = w.is_connected
    /\ last_command_at' = w.last_command_at
    /\ _timeout_timer' = w._timeout_timer
    /\ timers' = w.timers
    /\ log' = w.log
    /\ exc' = w.exc

Ran(name) ==
    /\ op' = [name |-> name, again |-> (op.name = name)]
    /\ pre' = Fields(World, now)
    /\ UNCHANGED threads

Bump(n) == IF n = Broken THEN Broken ELSE IF n < MaxBurst THEN n + 1 ELSE n

Init ==
    /\ now = 0
    /\ \E doConnect \in BOOLEAN, openOk \in BOOLEAN :
          LET w == init(0, doConnect, openOk, TRUE)
          IN  /\ is_connected = w.is_connected
              /\ last_command_at = w.last_command_at
              /\ _timeout_timer = w._timeout_timer
              /\ timers = w.timers
              /\ log = w.log
              /\ exc = w.exc
              /\ alive = (w.exc = "none")
    /\ pre = [ is_connected |-> FALSE, fresh |-> TRUE,
               _timeout_timer |-> Unset, timers |-> <<>> ]
    /\ op = [name |-> "init", again |-> FALSE]
    /\ lastActivity = 0
    /\ closedBy = "never"
    /\ burst = 0
    /\ arg = 0
    /\ threads = [th \in Threads |-> Idle]

Send ==
    /\ alive
    /\ \E openOk \in BOOLEAN, sendOk \in BOOLEAN :
          LET w == _send_command(World, now, openOk, sendOk, TRUE)
          IN  /\ Live(w) <= MaxTimers
              /\ Set(w)
              /\ lastActivity' =
                     IF w.exc = "ConnectionFailed" THEN lastActivity ELSE now
    /\ Ran("send")
    /\ burst' = Bump(burst)
    /\ arg' = 0
    /\ UNCHANGED <<now, alive, closedBy>>

Connect ==
    /\ alive
    /\ \E openOk \in BOOLEAN :
          LET w == connect(World, now, openOk, TRUE)
          IN  /\ Live(w) <= MaxTimers
              /\ Set(w)
              /\ lastActivity' =
                     IF w.exc = "ConnectionFailed" THEN lastActivity ELSE now
    /\ Ran("connect")
    /\ burst' = Broken
    /\ arg' = 0
    /\ UNCHANGED <<now, alive, closedBy>>

Close ==
    /\ alive
    /\ Set(close(World, TRUE))
    /\ Ran("close")
    /\ closedBy' = IF is_connected THEN "close" ELSE closedBy
    /\ burst' = Broken
    /\ arg' = 0
    /\ UNCHANGED <<now, alive, lastActivity>>

TimerFire ==
    /\ alive
    /\ \E i \in Waiting(World) :
          /\ Due(World, i) <= now
          /\ LET w == Timer_run(World, i, now, TRUE)
             IN  /\ Set(w)
                 /\ closedBy' = IF is_connected /\ ~w.is_connected
                                THEN "timeout" ELSE closedBy
    /\ Ran("timer")
    /\ burst' = Broken
    /\ arg' = 0
    /\ UNCHANGED <<now, alive, lastActivity>>

Tick ==
    /\ alive
    /\ \A i \in Waiting(World) : Due(World, i) > now
    /\ LET next == Min({now + Grain} \cup {Due(World, i) : i \in Waiting(World)})
       IN  /\ next <= MaxTime
           /\ now' = next
    /\ op' = [name |-> "tick", again |-> FALSE]
    /\ pre' = Fields(World, now')
    /\ log' = <<>>
    /\ exc' = "none"
    /\ arg' = 0
    /\ UNCHANGED <<is_connected, last_command_at, _timeout_timer, timers, alive,
                   lastActivity, closedBy, burst, threads>>

Next == Send \/ Connect \/ Close \/ TimerFire \/ Tick

Spec == Init /\ [][Next]_vars

---------------------------------------------------------------------------
(* timeout(seconds) called from outside the Timer: the method is public.   *)
(* seconds = 0 stands for None (and for 0, which "if not seconds" treats   *)
(* alike).  Under SpecCall the callers send commands and call timeout();   *)
(* the transport is closed by the idle-checks.                             *)

Seconds == {0, 30, 90}

Timeout ==
    /\ alive
    /\ \E seconds \in Seconds :
          LET w == timeout(World, now, seconds, TRUE)
          IN  /\ Live(w) <= MaxTimers
              /\ Set(w)
              /\ arg' = seconds
              /\ closedBy' = IF is_connected /\ ~w.is_connected
                             THEN "timeout" ELSE closedBy
    /\ Ran("timeout")
    /\ burst' = Broken
    /\ UNCHANGED <<now, alive, lastActivity>>

NextCall == Send \/ TimerFire \/ Tick \/ Timeout

SpecCall == Init /\ [][NextCall]_vars

---------------------------------------------------------------------------
(* A transport whose close can fail (the device is gone): the base class   *)
(* close() raises, and is_connected stays as it was.                       *)

CloseFault ==
    /\ alive
    /\ \E closeOk \in BOOLEAN :
          LET w == close(World, closeOk)
          IN  /\ Set(w)
              /\ closedBy' = IF is_connected /\ ~w.is_connected
                             THEN "close" ELSE closedBy
    /\ Ran("close")
    /\ burst' = Broken
    /\ arg' = 0
    /\ UNCHANGED <<now, alive, lastActivity>>

TimerFireFault ==
    /\ alive
    /\ \E i \in Waiting(World), closeOk \in BOOLEAN :
          /\ Due(World, i) <= now
          /\ LET w == Timer_run(World, i, now, closeOk)
             IN  /\ Set(w)
                 /\ closedBy' = IF is_connected /\ ~w.is_connected
                                THEN "timeout" ELSE closedBy
    /\ Ran("timer")
    /\ burst' = Broken
    /\ arg' = 0
    /\ UNCHANGED <<now, alive, lastActivity>>

NextFault == Send \/ Connect \/ CloseFault \/ TimerFireFault \/ Tick

SpecFault == Init /\ [][NextFault]_vars

---------------------------------------------------------------------------
(* The code line by line.  RESTAnovaController takes no lock: a caller's   *)
(* thread in _send_command or close and the Timer's thread in timeout run  *)
(* interleaved, one line of rest.py at a time.  A thread's pc names the    *)
(* line it is about to run.  Lines 45-48 (the comparison) are one step and *)
(* lines 52-54 (the new Timer, stored and started) are one step; line 66   *)
(* is two: self._timeout_timer is evaluated ("66"), then cancel() is       *)
(* called on the Timer that gave ("66c").  Operations take no time: the    *)
(* clock advances when no thread is inside one.  There is one caller at a  *)
(* time, sending commands and closing, and one Timer callback at a time:   *)
(* every behaviour of SpecConc is a behaviour of the code, which has more. *)

At(self, pc) == threads[self].pc = pc

Goto(self, pc) == [threads EXCEPT ![self].pc = pc]

(* timeout() or close() is over: back in _send_command after connect(),    *)
(* or the end of the operation.                                            *)
Return(self) ==
    IF threads[self].op = "send"
    THEN [threads EXCEPT ![self].pc = "73", ![self].held = "none"]
    ELSE [threads EXCEPT ![self] = Idle]

(* self._timeout_timer is assigned: a thread that holds the Timer it       *)
(* referred to now holds a Timer the attribute no longer refers to.        *)
Replaced(th) ==
    IF th.held = "attr"
    THEN IF _timeout_timer.st = "live"
         THEN [th EXCEPT !.held = "orphan", !.due = _timeout_timer.due]
         ELSE [th EXCEPT !.held = "dead"]
    ELSE th

(* cancel() on the Timer a thread holds *)
Held_cancel(w, th) ==
    IF th.held = "attr" THEN Timer_cancel(w)
    ELSE IF th.held = "orphan" /\ \E i \in DOMAIN w.timers : w.timers[i] = th.due
    THEN [w EXCEPT !.timers =
              Remove(@, Min({i \in DOMAIN w.timers : w.timers[i] = th.due}))]
    ELSE w

Stepped(name) ==
    /\ op' = [name |-> name, again |-> FALSE]
    /\ pre' = Fields(World, now)
    /\ burst' = Broken
    /\ arg' = 0
    /\ UNCHANGED <<now, alive>>

(* A request handler calls a command of the controller. *)
CallSend ==
    /\ alive
    /\ At("fg", "idle")
    /\ threads' = [threads EXCEPT !["fg"].pc = "71", !["fg"].op = "send"]
    /\ Set(World)
    /\ Stepped("send")
    /\ UNCHANGED <<lastActivity, closedBy>>

CallClose ==
    /\ alive
    /\ At("fg", "idle")
    /\ threads' = [threads EXCEPT !["fg"].pc = "64", !["fg"].op = "close"]
    /\ Set(World)
    /\ Stepped("close")
    /\ UNCHANGED <<lastActivity, closedBy>>

(* A Timer's wait is over: its thread calls timeout(). *)
Fire ==
    /\ alive
    /\ At("bg", "idle")
    /\ \E i \in Waiting(World) :
          /\ Due(World, i) <= now
          /\ Set(IF i = 0 THEN [World EXCEPT !._timeout_timer = Dead]
                 ELSE [World EXCEPT !.timers = Remove(@, i)])
    /\ threads' = [threads EXCEPT !["bg"].pc = "45", !["bg"].op = "timer"]
    /\ Stepped("timer")
    /\ UNCHANGED <<lastActivity, closedBy>>

(* if not self.is_connected: *)
L71(self) ==
    /\ At(self, "71")
    /\ threads' = Goto(self, IF ~is_connected THEN "59" ELSE "73")
    /\ Set(World)
    /\ Stepped(threads[self].op)
    /\ UNCHANGED <<lastActivity, closedBy>>

(* super(RESTAnovaController, self).connect() *)
L59(self) ==
    /\ At(self, "59")
    /\ \E openOk \in BOOLEAN :
          LET w == super_connect(World, openOk)
          IN  /\ Set(w)
              /\ threads' = IF w.exc # "none"
                            THEN [threads EXCEPT ![self] = Idle]
                            ELSE Goto(self, "60")
    /\ Stepped(threads[self].op)
    /\ UNCHANGED <<lastActivity, closedBy>>

(* self.last_command_at = datetime.datetime.now(), then self.timeout() *)
L60(self) ==
    /\ At(self, "60")
    /\ Set([Did(World, "stamp") EXCEPT !.last_command_at = now])
    /\ threads' = Goto(self, "45")
    /\ lastActivity' = now
    /\ Stepped(threads[self].op)
    /\ UNCHANGED closedBy

(* timeout_at = ...; if datetime.datetime.now() > timeout_at: *)
L45(self) ==
    /\ At(self, "45")
    /\ threads' = Goto(self, IF Expired(World, now, 0) THEN "64" ELSE "52")
    /\ Set(World)
    /\ Stepped(threads[self].op)
    /\ UNCHANGED <<lastActivity, closedBy>>

(* self._timeout_timer = Timer(...); setDaemon(True); start() *)
L52(self) ==
    /\ At(self, "52")
    /\ LET w == Timer_start(World, now)
       IN  /\ Live(w) <= MaxTimers
           /\ Set(w)
    /\ threads' = [th \in Threads |->
                      IF th = self THEN Return(self)[self]
                      ELSE Replaced(threads[th])]
    /\ Stepped(threads[self].op)
    /\ UNCHANGED <<lastActivity, closedBy>>

(* super(RESTAnovaController, self).close() *)
L64(self) ==
    /\ At(self, "64")
    /\ Set(super_close(World, TRUE))
    /\ threads' = Goto(self, "66")
    /\ closedBy' = IF ~is_connected THEN closedBy
                   ELSE IF threads[self].op = "timer" THEN "timeout"
                   ELSE "close"
    /\ Stepped(threads[self].op)
    /\ UNCHANGED lastActivity

(* self._timeout_timer is evaluated; AttributeError is passed over *)
L66(self) ==
    /\ At(self, "66")
    /\ threads' = IF _timeout_timer.st = "unset"
                  THEN Return(self)
                  ELSE [threads EXCEPT ![self].pc = "66c", ![self].held = "attr"]
    /\ Set(World)
    /\ Stepped(threads[self].op)
    /\ UNCHANGED <<lastActivity, closedBy>>

(* .cancel() on the Timer that gave *)
L66c(self) ==
    /\ At(self, "66c")
    /\ Set(Held_cancel(World, threads[self]))
    /\ threads' = Return(self)
    /\ Stepped(threads[self].op)
    /\ UNCHANGED <<lastActivity, closedBy>>

(* self.last_command_at = datetime.datetime.now() *)
L73(self) ==
    /\ At(self, "73")
    /\ Set([Did(World, "stamp") EXCEPT !.last_command_at = now])
    /\ threads' = Goto(self, "74")
    /\ lastActivity' = now
    /\ Stepped(threads[self].op)
    /\ UNCHANGED closedBy

(* return super(RESTAnovaController, self)._send_command(command) *)
L74(self) ==
    /\ At(self, "74")
    /\ \E sendOk \in BOOLEAN : Set(super_send_command(World, sendOk))
    /\ threads' = [threads EXCEPT ![self] = Idle]
    /\ Stepped(threads[self].op)
    /\ UNCHANGED <<lastActivity, closedBy>>

TickConc ==
    /\ \A th \in Threads : At(th, "idle")
    /\ Tick

NextConc ==
    \/ CallSend
    \/ CallClose
    \/ Fire
    \/ \E self \in Threads :
          \/ L71(self) \/ L59(self) \/ L60(self) \/ L45(self) \/ L52(self)
          \/ L64(self) \/ L66(self) \/ L66c(self) \/ L73(self) \/ L74(self)
    \/ TickConc

SpecConc == Init /\ [][NextConc]_vars

---------------------------------------------------------------------------
(* Properties *)

Before(seq, a, b) ==
    \A i, j \in DOMAIN seq : (seq[i] = a /\ seq[j] = b) => i < j

(* C1: a send that finds the transport CLOSED opens it exactly once, and   *)
(* the open comes before the command is forwarded; the command is          *)
(* forwarded unless the open failed.  The same holds for the first send    *)
(* after an idle-timeout close.                                            *)
C1_LazyOpen ==
    (op.name = "send" /\ ~pre.is_connected) =>
        /\ Count(log, "open") = 1
        /\ log[1] = "open"
        /\ Before(log, "open", "send")
        /\ (exc # "ConnectionFailed" => Count(log, "send") = 1)

C1_Witness ==
    /\ op.name = "send"
    /\ ~pre.is_connected
    /\ closedBy = "timeout"
    /\ exc = "none"
    /\ Count(log, "open") = 1
    /\ Count(log, "send") = 1

(* C2: a send that finds the transport OPEN calls no transport open,       *)
(* however many sends follow one another.                                  *)
C2_NoRedundantOpen ==
    (op.name = "send" /\ pre.is_connected) => Count(log, "open") = 0

C2_Witness ==
    /\ op.name = "send"
    /\ op.again
    /\ pre.is_connected
    /\ burst >= 2
    /\ Count(log, "send") = 1

(* C3: while the transport is OPEN, no more than TIMEOUT +                 *)
(* TIMEOUT_HEARTBEAT has passed since the last send or connect, and an     *)
(* idle-check is due by then: with nothing but idle-checks after the last  *)
(* send, the transport is CLOSED within TIMEOUT + TIMEOUT_HEARTBEAT of it, *)
(* whatever the offset of the send in the cadence of the checks.           *)
C3_IdleClose ==
    is_connected =>
        /\ now - lastActivity <= TIMEOUT + TIMEOUT_HEARTBEAT
        /\ \E i \in Waiting(World) :
              Due(World, i) <= lastActivity + TIMEOUT + TIMEOUT_HEARTBEAT

C3_Witness ==
    /\ op.name = "timer"
    /\ pre.is_connected
    /\ ~is_connected
    /\ now - lastActivity = 65

(* C4: an idle-check calls close only when at least TIMEOUT has passed     *)
(* since the latest send or connect, and a transport found CLOSED by an    *)
(* idle-check has been idle for at least TIMEOUT.                          *)
C4_ActivityResets ==
    /\ (op.name = "timer" /\ Count(log, "close") > 0) =>
            now - lastActivity >= TIMEOUT
    /\ (~is_connected /\ closedBy = "timeout") =>
            now - lastActivity >= TIMEOUT

C4_Witness ==
    /\ now = 110
    /\ lastActivity = 50
    /\ is_connected
    /\ closedBy = "never"
    /\ Scheduled(World) = <<120>>

(* C5: after N >= 1 sends in a row on a new guardian, with no idle-check   *)
(* fired, exactly one idle-check is scheduled if the transport is OPEN     *)
(* (none if every open failed), and a send that did not fail to open       *)
(* leaves it OPEN.                                                         *)
C5_SingleTimerAfterBurst ==
    burst >= 1 =>
        /\ Live(World) = (IF is_connected THEN 1 ELSE 0)
        /\ (op.name = "send" /\ exc # "ConnectionFailed") => is_connected

C5_Witness ==
    /\ burst >= 3
    /\ op.name = "send"
    /\ exc = "none"
    /\ is_connected
    /\ now > 0
    /\ Live(World) = 1

(* C6: close() raises nothing and leaves the transport CLOSED; a second    *)
(* close() right after the first changes no field of the guardian and no   *)
(* timer.                                                                  *)
C6_CloseIdempotent ==
    op.name = "close" =>
        /\ exc = "none"
        /\ ~is_connected
        /\ op.again =>
              /\ Count(log, "stamp") = 0
              /\ is_connected = pre.is_connected
              /\ _timeout_timer = pre._timeout_timer
              /\ timers = pre.timers

C6_Witness ==
    /\ op.name = "close"
    /\ op.again
    /\ closedBy = "close"
    /\ _timeout_timer = Dead
    /\ exc = "none"
    /\ ~is_connected

(* C7, as stated: an idle-check that finds elapsed >= TIMEOUT closes the   *)
(* transport.                                                              *)
C7_AsStated ==
    (op.name = "timer" /\ pre.is_connected
        /\ now - lastActivity >= TIMEOUT) => ~is_connected

(* C7, amended: an idle-check closes the transport exactly when elapsed    *)
(* is greater than TIMEOUT; at elapsed = TIMEOUT it starts the next check, *)
(* so a transport closed by an idle-check has been idle for more than      *)
(* TIMEOUT.                                                                *)
C7_StrictBoundary ==
    /\ (op.name = "timer" /\ pre.is_connected) =>
          /\ ~is_connected <=> now - lastActivity > TIMEOUT
          /\ is_connected => Count(log, "arm") = 1
    /\ (~is_connected /\ closedBy = "timeout") =>
            now - lastActivity > TIMEOUT

C7_Witness ==
    /\ now = 65
    /\ lastActivity = 0
    /\ is_connected
    /\ closedBy = "never"
    /\ Scheduled(World) = <<80>>

(* C8: when the transport open fails, in the constructor, in connect() or  *)
(* in a send, the call raises ConnectionFailed, has called open once, has  *)
(* started no idle-check and has forwarded no command.                     *)
C8_OpenFailure ==
    Count(log, "ConnectionFailed") > 0 =>
        /\ exc = "ConnectionFailed"
        /\ Count(log, "open") = 1
        /\ Count(log, "arm") = 0
        /\ Count(log, "send") = 0
        /\ Scheduled(World) = Scheduled(pre)
        /\ _timeout_timer = pre._timeout_timer

C8_Witness ==
    /\ op.name = "send"
    /\ exc = "ConnectionFailed"
    /\ log = <<"open", "ConnectionFailed">>
    /\ ~is_connected

(* C9, as stated: a send whose transport send fails leaves the guardian    *)
(* as it was, last_command_at included.                                    *)
C9_AsStated ==
    (op.name = "send" /\ exc = "CommandFailed") =>
        /\ Count(log, "stamp") > 0 => pre.fresh
        /\ is_connected = pre.is_connected
        /\ _timeout_timer = pre._timeout_timer
        /\ timers = pre.timers

(* C9, amended: a send whose transport send fails raises CommandFailed     *)
(* with last_command_at set to the time of the call; on a transport that   *)
(* was OPEN nothing else has changed, and on one that was CLOSED the       *)
(* transport is now OPEN with one idle-check started.                      *)
C9_FailedSend ==
    Count(log, "CommandFailed") > 0 =>
        /\ op.name = "send"
        /\ exc = "CommandFailed"
        /\ last_command_at = now
        /\ is_connected
        /\ pre.is_connected =>
              /\ _timeout_timer = pre._timeout_timer
              /\ timers = pre.timers
        /\ ~pre.is_connected =>
              /\ Count(log, "arm") = 1
              /\ Count(log, "open") = 1

C9_Witness ==
    /\ op.name = "send"
    /\ exc = "CommandFailed"
    /\ pre.is_connected
    /\ ~pre.fresh
    /\ last_command_at = now
    /\ timers = pre.timers

(* C10, as stated: at most one idle-check timer is live at any time.       *)
C10_AsStated == Live(World) <= 1

(* C11, as stated: a command is forwarded to the transport only while the  *)
(* transport is OPEN, also when the send runs together with an idle-check  *)
(* or a close.                                                             *)
C11_AsStated == Count(log, "send") > 0 => is_connected

(* C12, as stated: when a caller's close() has returned, no Timer is live. *)
C12_AsStated ==
    (op.name = "close" /\ At("fg", "idle")) => Live(World) = 0

(* C18, as stated: when no operation is in progress and the transport is   *)
(* OPEN, at least one idle-check Timer is live.                            *)
C18_AsStated ==
    ((\A th \in Threads : At(th, "idle")) /\ alive /\ is_connected) =>
        Live(World) >= 1

(* C19, as stated: when an idle-check closes the transport, at least       *)
(* TIMEOUT has passed since last_command_at was set last.                  *)
C19_AsStated ==
    (op.name = "timer" /\ Count(log, "close") > 0) =>
        now - last_command_at >= TIMEOUT

(* C13: a connect that opened the transport sets last_command_at to the    *)
(* current time after the open and before the idle-check is started; a     *)
(* send sets last_command_at to the current time right before it forwards  *)
(* the command, after any open it needed, so the time recorded while the   *)
(* command runs is the time it started.                                    *)
C13_TimestampOrder ==
    /\ (op.name \in {"init", "connect"} /\ exc = "none" /\ log # <<>>) =>
          /\ log = <<"open", "stamp", "arm">>
          /\ last_command_at = now
    /\ (op.name = "send" /\ exc # "ConnectionFailed") =>
          /\ last_command_at = now
          /\ Count(log, "send") = 1
          /\ \A k \in DOMAIN log : log[k] = "send" =>
                /\ k > 1
                /\ log[k - 1] = "stamp"
                /\ \A i \in DOMAIN log :
                      log[i] \in {"open", "arm"} => i < k - 1
          /\ ~pre.is_connected => SubSeq(log, 1, 3) = <<"open", "stamp", "arm">>

C13_Witness ==
    /\ op.name = "send"
    /\ ~pre.fresh
    /\ closedBy = "timeout"
    /\ log = <<"open", "stamp", "arm", "stamp", "send">>
    /\ last_command_at = now

(* C14: an idle-check that does not find the transport idle for longer     *)
(* than its threshold (TIMEOUT, or the seconds it was called with) starts  *)
(* exactly one new Timer, due TIMEOUT_HEARTBEAT from now whatever is left  *)
(* of the idle time and whatever seconds it was called with, and does not  *)
(* close the transport.                                                    *)
C14_FixedCadence ==
    (op.name \in {"timer", "timeout"}
        /\ now - last_command_at <= (IF arg = 0 THEN TIMEOUT ELSE arg)) =>
        /\ log = <<"arm">>
        /\ exc = "none"
        /\ _timeout_timer = Started(now + TIMEOUT_HEARTBEAT)
        /\ is_connected = pre.is_connected
        /\ Live(World) = Live(pre) + (IF op.name = "timeout" THEN 1 ELSE 0)

C14_Witness ==
    /\ op.name = "timeout"
    /\ arg = 90
    /\ now - last_command_at = 65
    /\ is_connected
    /\ log = <<"arm">>
    /\ _timeout_timer = Started(now + TIMEOUT_HEARTBEAT)

(* C15, as stated: once an idle-check has closed the transport, and until  *)
(* the transport is opened again, no idle-check Timer is live.             *)
C15_AsStated ==
    (~is_connected /\ closedBy = "timeout") => Live(World) = 0

(* C16: close() on a guardian that never started an idle-check (created    *)
(* with connect=False, or whose opens all failed) raises nothing, calls    *)
(* the transport close, leaves the transport CLOSED and creates no timer.  *)
C16_CloseNeverArmed ==
    (op.name = "close" /\ pre._timeout_timer = Unset) =>
        /\ exc = "none"
        /\ log = <<"close">>
        /\ ~is_connected
        /\ _timeout_timer = Unset
        /\ timers = <<>>

C16_Witness ==
    /\ op.name = "close"
    /\ ~op.again
    /\ pre._timeout_timer = Unset
    /\ closedBy = "never"
    /\ now > 0
    /\ exc = "none"
    /\ ~is_connected

(* C17, as stated: when the transport close fails inside close(), called   *)
(* by an idle-check or by a caller, close() raises nothing and the Timer   *)
(* self._timeout_timer refers to is cancelled.                             *)
C17_AsStated ==
    Count(log, "CloseFailed") > 0 =>
        /\ exc = "none"
        /\ _timeout_timer.st # "live"

(* C20: a send that finds the transport OPEN sets last_command_at and      *)
(* forwards the command, and nothing else: it opens and closes nothing,    *)
(* and it starts, cancels and moves no Timer, so the idle-checks stay due  *)
(* when they were due before the send.                                     *)
C20_SendFrame ==
    (op.name = "send" /\ pre.is_connected) =>
        /\ SubSeq(log, 1, 2) = <<"stamp", "send">>
        /\ Count(log, "arm") = 0
        /\ Count(log, "open") = 0
        /\ Count(log, "close") = 0
        /\ last_command_at = now
        /\ is_connected
        /\ _timeout_timer = pre._timeout_timer
        /\ timers = pre.timers
        /\ Scheduled(World) = Scheduled(pre)

C20_Witness ==
    /\ op.name = "send"
    /\ pre.is_connected
    /\ ~pre.fresh
    /\ exc = "none"
    /\ closedBy = "never"
    /\ now = 45
    /\ last_command_at = 45
    /\ Scheduled(World) = <<60>>

=============================================================================
